---- MODULE Spec2Model ----
(***************************************************************************)
(* Model of the task store of openclaw-tasks (src/index.ts): the          *)
(* TaskStorage class (getProject / saveProject / createProject / addTask / *)
(* updateTaskStatus / setBlocker / updateTaskNotes) over a directory of    *)
(* one JSON file per project.                                              *)
(*                                                                         *)
(* Spec      one caller; every engine operation is one atomic action.      *)
(* SpecGraph the same with the three handlers of the dependency graph      *)
(*           (addTask, updateTaskStatus, setBlocker), called with ids the  *)
(*           project holds, and longer behaviours.                         *)
(* SpecNoBlockedArg  Spec without the calls updateTaskStatus(.., blocked).  *)
(* SpecSweep SpecGraph followed by a sweep: updateTaskStatus(.., completed) *)
(*           on every task of the project, in any order, nothing between.  *)
(* SpecTool  the tool task_create (addTask, then setBlocker on each listed   *)
(*           id) between updateTaskStatus calls.                           *)
(* SpecConc  two callers on one directory; every file-system call          *)
(*           (readFileSync, writeFileSync) is one step.                    *)
(* SpecStore one caller on two projects, with the store's own operations   *)
(*           (createProject, saveProject, listProjects, getProject,        *)
(*           getActiveProjects), the clock, and what can happen to the     *)
(*           directory from outside.                                       *)
(***************************************************************************)
EXTENDS Integers, Sequences, FiniteSets, TLC

VARIABLES
    root,     \* the tasks directory exists
    files,    \* the tasks directory: project name -> <<>> (no file) or <<file text>>
    today,    \* the date new Date() gives, as a day number
    last,     \* the call that ran last in Spec, with what it returned
    nops,     \* number of engine calls made so far
    issued,   \* per project, the ids addTask returned, in call order
    proc,     \* SpecConc: per caller, the call in flight and its local variables
    swept     \* SpecSweep: per project, the ids completed since the sweep began

vars == <<root, files, today, last, nops, issued, proc, swept>>

----------------------------------------------------------------------------
(* Bounds and input sets *)

MaxTasks == 3      \* addTask is not called on a project that holds MaxTasks tasks
MaxOps == 6        \* engine calls per behaviour of Spec
MaxGraphOps == 7   \* engine calls per behaviour of SpecGraph
MaxCalls == 3      \* engine calls per behaviour of SpecConc
MaxStoreOps == 4   \* calls and outside events per behaviour of SpecStore
MaxStoreTasks == 2 \* tasks per project in SpecStore
MaxToolOps == 4    \* tool and engine calls per behaviour of SpecTool
MaxToolTasks == 2  \* tasks per project in SpecTool
MaxListLen == 2    \* length of the blockedBy list given to task_create
MaxSweepOps == 6   \* engine calls per behaviour of SpecSweep before the sweep

\* The project names in use; a name is any string, a dot included
ProjectSeq == <<"p", "q.jsonl">>
Projects == {ProjectSeq[i] : i \in 1..Len(ProjectSeq)}
ProjectStatus == {"active", "paused", "completed"}
Worked == {"p"}             \* the project the callers of Spec and SpecConc work on
Subjects == {"s"}
NotesIn == {"n"}
TaskStatus == {"pending", "in_progress", "completed", "blocked"}
Callers == {1, 2}

\* String(n) for the numbers the model can produce
Digits == <<"1", "2", "3", "4", "5", "6", "7", "8", "9">>
String(n) == IF n = 0 THEN "0" ELSE Digits[n]
\* parseInt(s) || 0 : NaN and 0 both give 0
parseIntOr0(s) ==
    IF \E n \in 1..Len(Digits) : Digits[n] = s
    THEN CHOOSE n \in 1..Len(Digits) : Digits[n] = s
    ELSE 0

IdInputs == {String(i) : i \in 1..MaxTasks}
StoreIds == {String(i) : i \in 1..MaxStoreTasks}
\* The blockedBy lists task_create is given; undefined is the empty list
ToolIds == {String(i) : i \in 1..MaxToolTasks + 1}
BlockedByInputs == UNION {[1..n -> ToolIds] : n \in 0..MaxListLen}

Max(a, b) == IF a >= b THEN a ELSE b

----------------------------------------------------------------------------
(* Array helpers of the source *)

\* arr.includes(x)
includes(arr, x) == \E i \in 1..Len(arr) : arr[i] = x

\* arr.filter(id => id !== x)
filterNot(arr, x) == SelectSeq(arr, LAMBDA id : id # x)

\* data.tasks.find(t => t.id === taskId), as an index; 0 when find gives undefined
find(tasks, taskId) ==
    IF \E i \in 1..Len(tasks) : tasks[i].id = taskId
    THEN CHOOSE i \in 1..Len(tasks) :
            /\ tasks[i].id = taskId
            /\ \A j \in 1..(i - 1) : tasks[j].id # taskId
    ELSE 0

\* Faulty variant of reduceMaxId: the accumulator is dropped, so the result is
\* the id of the first task
reduceMaxId_First(tasks, i, max) ==
    IF i > Len(tasks) THEN max ELSE parseIntOr0(tasks[i].id)

\* data.tasks.reduce((max, t) => Math.max(max, parseInt(t.id) || 0), 0)
RECURSIVE reduceMaxId(_, _, _)
reduceMaxId(tasks, i, max) ==
    IF i > Len(tasks) THEN max
    ELSE reduceMaxId(tasks, i + 1, Max(max, parseIntOr0(tasks[i].id)))

----------------------------------------------------------------------------
(* Storage layer *)

Null == <<>>

\* JSON.stringify(data, null, 2): the members in insertion order
stringifyTask(t) == <<t.id, t.subject, t.status, t.blockedBy, t.blocks, t.notes>>
JSONstringify(data) ==
    <<data.project, data.status, data.created, data.updated,
      [i \in 1..Len(data.tasks) |-> stringifyTask(data.tasks[i])]>>

\* Faulty variant of parseTask: blockedBy and blocks are read from each
\* other's member
parseTask_SwapsEdges(x) ==
    [id |-> x[1], subject |-> x[2], status |-> x[3],
     blockedBy |-> x[5], blocks |-> x[4], notes |-> x[6]]

\* JSON.parse(content) as TaskProject
parseTask(x) ==
    [id |-> x[1], subject |-> x[2], status |-> x[3],
     blockedBy |-> x[4], blocks |-> x[5], notes |-> x[6]]
JSONparse(content) ==
    [project |-> content[1], status |-> content[2],
     created |-> content[3], updated |-> content[4],
     tasks |-> [i \in 1..Len(content[5]) |-> parseTask(content[5][i])]]

\* JSON.parse(content) throws: the text of an empty file
SyntaxError(content) == content = <<>>

\* The storage as an operation sees it: the directory and its files, and the
\* reads and writes the operation has made.
Storage(fs) == [root |-> root, files |-> fs, reads |-> 0, writes |-> 0]

\* path.join(this.tasksDir, `${project}.json`), relative to the directory
projectPath(project) == project \o ".json"

\* f.endsWith(suffix)
endsWith(f, suffix) ==
    /\ Len(f) >= Len(suffix)
    /\ SubSeq(f, Len(f) - Len(suffix) + 1, Len(f)) = suffix

\* f.replace(pattern, by) with a string pattern: the first occurrence only
replace(f, pattern, by) ==
    LET at == {i \in 1..(Len(f) - Len(pattern) + 1) :
                  SubSeq(f, i, i + Len(pattern) - 1) = pattern}
        first == CHOOSE i \in at : \A j \in at : i <= j
    IN IF at = {} THEN f
       ELSE SubSeq(f, 1, first - 1) \o by \o SubSeq(f, first + Len(pattern), Len(f))

\* fs.readdirSync(this.tasksDir): the names of the files, when it does not throw
readdirSync(st) ==
    LET stored == SelectSeq(ProjectSeq, LAMBDA p : st.files[p] # <<>>)
    IN [i \in 1..Len(stored) |-> projectPath(stored[i])]

\* fs.readFileSync(projectPath(project)): <<text>>, or <<>> when it throws.
\* files is indexed by the project whose path the file has; two names have
\* the same path only when they are equal.
readFileSync(st, project) ==
    IF project \in DOMAIN st.files THEN st.files[project] ELSE <<>>

\* listProjects: [] when readdirSync throws (no directory)
listProjects(st) ==
    LET json == SelectSeq(readdirSync(st), LAMBDA f : endsWith(f, ".json"))
    IN IF ~st.root THEN <<>>
       ELSE [i \in 1..Len(json) |-> replace(json[i], ".json", "")]

\* Faulty variant of getProject: the path does not depend on the name, and the
\* first file of the directory is read
getProject_IgnoresName(st, project) ==
    LET stored == SelectSeq(ProjectSeq, LAMBDA p : st.files[p] # <<>>)
        content == IF stored = <<>> THEN <<>> ELSE readFileSync(st, stored[1])
    IN [val |-> IF content = <<>> \/ SyntaxError(content[1]) THEN Null
                ELSE <<JSONparse(content[1])>>,
        st |-> [st EXCEPT !.reads = @ + 1]]

\* getProject: <<data>> or Null (readFileSync or JSON.parse threw), and the
\* storage after the read
getProject(st, project) ==
    LET content == readFileSync(st, project)
    IN [val |-> IF content = <<>> \/ SyntaxError(content[1]) THEN Null
                ELSE <<JSONparse(content[1])>>,
        st |-> [st EXCEPT !.reads = @ + 1]]

\* saveProject: stamps data.updated and writes the whole file; writeFileSync
\* throws when the directory is gone
saveProject(st, data, day) ==
    LET stamped == [data EXCEPT !.updated = day]
    IN IF ~st.root THEN [data |-> stamped, st |-> st, err |-> "ENOENT"]
       ELSE [data |-> stamped,
             st |-> [st EXCEPT !.files[data.project] = <<JSONstringify(stamped)>>,
                               !.writes = @ + 1],
             err |-> ""]

\* createProject: a new active project without tasks, saved.  (The plan file
\* it also writes lives in another directory and is not part of the store.)
createProject(st, project, day) ==
    saveProject(st,
                [project |-> project, status |-> "active", created |-> day,
                 updated |-> day, tasks |-> <<>>],
                day)

\* getActiveProjects: listProjects().map(getProject).filter(p !== null && active)
getActiveProjects(st) ==
    LET names == listProjects(st)
        loaded == [i \in 1..Len(names) |-> getProject(st, names[i]).val]
        active == SelectSeq(loaded, LAMBDA v : v # Null /\ v[1].status = "active")
    IN [i \in 1..Len(active) |-> active[i][1]]

----------------------------------------------------------------------------
(* Engine operations.  What a handler does between its file-system calls is
   an operator on the loaded value; the handler is the load, that code and
   the save.  A handler gives the storage after the call, the error it threw
   ("" when it returned), the id of the task it returned ("" for void) and
   the unblocked list. *)

Return(st, ret, unblocked) ==
    [st |-> st, err |-> "", ret |-> ret, unblocked |-> unblocked]
Throw(st, msg) ==
    [st |-> st, err |-> msg, ret |-> "", unblocked |-> <<>>]

\* What the in-memory code leaves to be saved and returned, or the error thrown
Ready(data, ret, unblocked) ==
    [err |-> "", data |-> <<data>>, ret |-> ret, unblocked |-> unblocked]
Thrown(msg) ==
    [err |-> msg, data |-> <<>>, ret |-> "", unblocked |-> <<>>]

\* Faulty variant of newTask: the id is maxId, not maxId + 1
newTask_NoIncrement(data, subject) ==
    [id |-> String(reduceMaxId(data.tasks, 1, 0)), subject |-> subject,
     status |-> "pending", blockedBy |-> <<>>, blocks |-> <<>>, notes |-> ""]

\* The task addTask builds for data
newTask(data, subject) ==
    [id |-> String(reduceMaxId(data.tasks, 1, 0) + 1), subject |-> subject,
     status |-> "pending", blockedBy |-> <<>>, blocks |-> <<>>, notes |-> ""]

\* Faulty variant of addTaskBody: the task is put in front (unshift)
addTaskBody_Prepends(data, subject) ==
    LET task == newTask(data, subject)
    IN Ready([data EXCEPT !.tasks = <<task>> \o @], task.id, <<>>)

\* addTask from the maxId line to data.tasks.push(task)
addTaskBody(data, subject) ==
    LET task == newTask(data, subject)
    IN Ready([data EXCEPT !.tasks = Append(@, task)], task.id, <<>>)

addTask(st, project, subject, day) ==
    LET g == getProject(st, project)
        c == createProject(g.st, project, day)
        data == IF g.val = Null THEN c.data ELSE g.val[1]
        st1 == IF g.val = Null THEN c.st ELSE g.st
        m == addTaskBody(data, subject)
    IN IF g.val = Null /\ c.err # "" THEN Throw(c.st, c.err)
       ELSE Return(saveProject(st1, m.data[1], day).st, m.ret, m.unblocked)

\* Faulty variant of cascade: the test t.blockedBy.length === 0 is left out
RECURSIVE cascade_UnblocksEarly(_, _, _, _)
cascade_UnblocksEarly(tasks, taskId, i, unblocked) ==
    IF i > Len(tasks) THEN [tasks |-> tasks, unblocked |-> unblocked]
    ELSE IF includes(tasks[i].blockedBy, taskId)
    THEN LET rest == filterNot(tasks[i].blockedBy, taskId)
             free == tasks[i].status = "blocked"
             t == [tasks[i] EXCEPT !.blockedBy = rest,
                                   !.status = IF free THEN "pending" ELSE @]
         IN cascade_UnblocksEarly([tasks EXCEPT ![i] = t], taskId, i + 1,
                                  IF free THEN Append(unblocked, t.id) ELSE unblocked)
    ELSE cascade_UnblocksEarly(tasks, taskId, i + 1, unblocked)

\* Faulty variant of cascade: the test t.status === "blocked" is left out
RECURSIVE cascade_IgnoresStatus(_, _, _, _)
cascade_IgnoresStatus(tasks, taskId, i, unblocked) ==
    IF i > Len(tasks) THEN [tasks |-> tasks, unblocked |-> unblocked]
    ELSE IF includes(tasks[i].blockedBy, taskId)
    THEN LET rest == filterNot(tasks[i].blockedBy, taskId)
             free == Len(rest) = 0
             t == [tasks[i] EXCEPT !.blockedBy = rest,
                                   !.status = IF free THEN "pending" ELSE @]
         IN cascade_IgnoresStatus([tasks EXCEPT ![i] = t], taskId, i + 1,
                                  IF free THEN Append(unblocked, t.id) ELSE unblocked)
    ELSE cascade_IgnoresStatus(tasks, taskId, i + 1, unblocked)

\* Faulty variant of cascade: the test t.blockedBy.includes(taskId) is left out
RECURSIVE cascade_Everyone(_, _, _, _)
cascade_Everyone(tasks, taskId, i, unblocked) ==
    IF i > Len(tasks) THEN [tasks |-> tasks, unblocked |-> unblocked]
    ELSE LET rest == filterNot(tasks[i].blockedBy, taskId)
             free == Len(rest) = 0 /\ tasks[i].status = "blocked"
             t == [tasks[i] EXCEPT !.blockedBy = rest,
                                   !.status = IF free THEN "pending" ELSE @]
         IN cascade_Everyone([tasks EXCEPT ![i] = t], taskId, i + 1,
                             IF free THEN Append(unblocked, t.id) ELSE unblocked)

\* Faulty variant of cascade: t.status = "pending" is left out
RECURSIVE cascade_KeepsStatus(_, _, _, _)
cascade_KeepsStatus(tasks, taskId, i, unblocked) ==
    IF i > Len(tasks) THEN [tasks |-> tasks, unblocked |-> unblocked]
    ELSE IF includes(tasks[i].blockedBy, taskId)
    THEN LET rest == filterNot(tasks[i].blockedBy, taskId)
             free == Len(rest) = 0 /\ tasks[i].status = "blocked"
             t == [tasks[i] EXCEPT !.blockedBy = rest]
         IN cascade_KeepsStatus([tasks EXCEPT ![i] = t], taskId, i + 1,
                                IF free THEN Append(unblocked, t.id) ELSE unblocked)
    ELSE cascade_KeepsStatus(tasks, taskId, i + 1, unblocked)

\* for (const t of data.tasks) { if (t.blockedBy.includes(taskId)) ... }
RECURSIVE cascade(_, _, _, _)
cascade(tasks, taskId, i, unblocked) ==
    IF i > Len(tasks) THEN [tasks |-> tasks, unblocked |-> unblocked]
    ELSE IF includes(tasks[i].blockedBy, taskId)
    THEN LET rest == filterNot(tasks[i].blockedBy, taskId)
             free == Len(rest) = 0 /\ tasks[i].status = "blocked"
             t == [tasks[i] EXCEPT !.blockedBy = rest,
                                   !.status = IF free THEN "pending" ELSE @]
         IN cascade([tasks EXCEPT ![i] = t], taskId, i + 1,
                    IF free THEN Append(unblocked, t.id) ELSE unblocked)
    ELSE cascade(tasks, taskId, i + 1, unblocked)

\* Faulty variant of applyStatus: the test status === "completed" is left out
applyStatus_AlwaysCascades(tasks, k, taskId, status) ==
    cascade([tasks EXCEPT ![k].status = status], taskId, 1, <<>>)

\* updateTaskStatus from task.status = status to the end of the loop,
\* for the task found at index k
applyStatus(tasks, k, taskId, status) ==
    LET set == [tasks EXCEPT ![k].status = status]
    IN IF status = "completed"
       THEN cascade(set, taskId, 1, <<>>)
       ELSE [tasks |-> set, unblocked |-> <<>>]

\* updateTaskStatus between getProject and saveProject
updateTaskStatusBody(val, taskId, status) ==
    LET k == find(val[1].tasks, taskId)
        m == applyStatus(val[1].tasks, k, taskId, status)
    IN IF val = Null THEN Thrown("Project not found")
       ELSE IF k = 0 THEN Thrown("Task not found")
       ELSE Ready([val[1] EXCEPT !.tasks = m.tasks], taskId, m.unblocked)

updateTaskStatus(st, project, taskId, status, day) ==
    LET g == getProject(st, project)
        m == updateTaskStatusBody(g.val, taskId, status)
    IN IF m.err # "" THEN Throw(g.st, m.err)
       ELSE Return(saveProject(g.st, m.data[1], day).st, m.ret, m.unblocked)

\* Faulty variant of applyBlocker: the includes tests are left out
applyBlocker_AlwaysPush(tasks, k, b, taskId, blockerId) ==
    LET t1 == [tasks EXCEPT ![k].blockedBy = Append(@, blockerId),
                            ![k].status = "blocked"]
    IN [t1 EXCEPT ![b].blocks = Append(@, taskId)]

\* Faulty variant of applyBlocker: the test blocker.blocks.includes(taskId) is
\* left out
applyBlocker_PushesBlocks(tasks, k, b, taskId, blockerId) ==
    LET t1 == IF ~includes(tasks[k].blockedBy, blockerId)
              THEN [tasks EXCEPT ![k].blockedBy = Append(@, blockerId),
                                 ![k].status = "blocked"]
              ELSE tasks
    IN [t1 EXCEPT ![b].blocks = Append(@, taskId)]

\* Faulty variant of applyBlocker: the status is set outside the first if
applyBlocker_AlwaysBlocks(tasks, k, b, taskId, blockerId) ==
    LET t0 == [tasks EXCEPT ![k].status = "blocked"]
        t1 == IF ~includes(t0[k].blockedBy, blockerId)
              THEN [t0 EXCEPT ![k].blockedBy = Append(@, blockerId)]
              ELSE t0
    IN IF ~includes(t1[b].blocks, taskId)
       THEN [t1 EXCEPT ![b].blocks = Append(@, taskId)]
       ELSE t1

\* Faulty variant of applyBlocker: the second if (blocker.blocks) is left out
applyBlocker_ForgetsBlocks(tasks, k, b, taskId, blockerId) ==
    IF ~includes(tasks[k].blockedBy, blockerId)
    THEN [tasks EXCEPT ![k].blockedBy = Append(@, blockerId),
                       ![k].status = "blocked"]
    ELSE tasks

\* The two ifs of setBlocker, for the task at index k and the blocker at index b
applyBlocker(tasks, k, b, taskId, blockerId) ==
    LET t1 == IF ~includes(tasks[k].blockedBy, blockerId)
              THEN [tasks EXCEPT ![k].blockedBy = Append(@, blockerId),
                                 ![k].status = "blocked"]
              ELSE tasks
    IN IF ~includes(t1[b].blocks, taskId)
       THEN [t1 EXCEPT ![b].blocks = Append(@, taskId)]
       ELSE t1

\* Faulty variant of setBlockerBody: a blocker that does not exist is not
\* refused, its id is pushed to blockedBy all the same
setBlockerBody_NoBlockerCheck(val, taskId, blockerId) ==
    LET k == find(val[1].tasks, taskId)
        b == find(val[1].tasks, blockerId)
    IN IF val = Null THEN Thrown("Project not found")
       ELSE IF k = 0 THEN Thrown("Task not found")
       ELSE IF b = 0
       THEN Ready([val[1] EXCEPT !.tasks[k].blockedBy = Append(@, blockerId),
                                 !.tasks[k].status = "blocked"], "", <<>>)
       ELSE Ready([val[1] EXCEPT !.tasks = applyBlocker(@, k, b, taskId, blockerId)],
                  "", <<>>)

\* setBlocker between getProject and saveProject
setBlockerBody(val, taskId, blockerId) ==
    LET k == find(val[1].tasks, taskId)
        b == find(val[1].tasks, blockerId)
    IN IF val = Null THEN Thrown("Project not found")
       ELSE IF k = 0 \/ b = 0 THEN Thrown("Task not found")
       ELSE Ready([val[1] EXCEPT !.tasks = applyBlocker(@, k, b, taskId, blockerId)],
                  "", <<>>)

setBlocker(st, project, taskId, blockerId, day) ==
    LET g == getProject(st, project)
        m == setBlockerBody(g.val, taskId, blockerId)
    IN IF m.err # "" THEN Throw(g.st, m.err)
       ELSE Return(saveProject(g.st, m.data[1], day).st, m.ret, m.unblocked)

\* Faulty variant of updateTaskNotesBody: the project is made active again
updateTaskNotesBody_Reactivates(val, taskId, notes) ==
    LET k == find(val[1].tasks, taskId)
    IN IF val = Null THEN Thrown("Project not found")
       ELSE IF k = 0 THEN Thrown("Task not found")
       ELSE Ready([val[1] EXCEPT !.tasks[k].notes = notes, !.status = "active"],
                  "", <<>>)

\* updateTaskNotes between getProject and saveProject
updateTaskNotesBody(val, taskId, notes) ==
    LET k == find(val[1].tasks, taskId)
    IN IF val = Null THEN Thrown("Project not found")
       ELSE IF k = 0 THEN Thrown("Task not found")
       ELSE Ready([val[1] EXCEPT !.tasks[k].notes = notes], "", <<>>)

\* Faulty variant of updateTaskNotes: the project is saved before the task is
\* looked up
updateTaskNotes_SavesFirst(st, project, taskId, notes, day) ==
    LET g == getProject(st, project)
        m == updateTaskNotesBody(g.val, taskId, notes)
    IN IF g.val = Null THEN Throw(g.st, m.err)
       ELSE IF m.err # "" THEN Throw(saveProject(g.st, g.val[1], day).st, m.err)
       ELSE Return(saveProject(g.st, m.data[1], day).st, m.ret, m.unblocked)

updateTaskNotes(st, project, taskId, notes, day) ==
    LET g == getProject(st, project)
        m == updateTaskNotesBody(g.val, taskId, notes)
    IN IF m.err # "" THEN Throw(g.st, m.err)
       ELSE Return(saveProject(g.st, m.data[1], day).st, m.ret, m.unblocked)

\* Faulty variant of linkEach: the loop ends at the first setBlocker that throws
RECURSIVE linkEach_StopsAtThrow(_, _, _, _, _, _)
linkEach_StopsAtThrow(st, project, taskId, blockedBy, i, day) ==
    IF i > Len(blockedBy) THEN st
    ELSE LET r == setBlocker(st, project, taskId, blockedBy[i], day)
         IN IF r.err # "" THEN r.st
            ELSE linkEach_StopsAtThrow(r.st, project, taskId, blockedBy, i + 1, day)

\* for (const blockerId of blockedBy) { try { storage.setBlocker(..) } catch {} }
RECURSIVE linkEach(_, _, _, _, _, _)
linkEach(st, project, taskId, blockedBy, i, day) ==
    IF i > Len(blockedBy) THEN st
    ELSE linkEach(setBlocker(st, project, taskId, blockedBy[i], day).st,
                  project, taskId, blockedBy, i + 1, day)

\* The execute callback of the tool task_create; it returns details.taskId
task_create(st, project, subject, blockedBy, day) ==
    LET a == addTask(st, project, subject, day)
    IN IF a.err # "" THEN a
       ELSE Return(linkEach(a.st, project, a.ret, blockedBy, 1, day), a.ret, <<>>)

\* The handler named op, called with (project, taskId, arg)
Handler(op, st, project, taskId, arg, day) ==
    CASE op = "addTask" -> addTask(st, project, arg, day)
      [] op = "updateTaskStatus" -> updateTaskStatus(st, project, taskId, arg, day)
      [] op = "setBlocker" -> setBlocker(st, project, taskId, arg, day)
      [] op = "updateTaskNotes" -> updateTaskNotes(st, project, taskId, arg, day)

----------------------------------------------------------------------------
(* Reading the store *)

\* The tasks of the file content f (<<>> or <<text>>)
TasksOf(f) == IF f = <<>> \/ SyntaxError(f[1]) THEN <<>> ELSE JSONparse(f[1]).tasks
Exists(p) == files[p] # <<>>
Tasks(p) == TasksOf(files[p])
\* The task with id t of a task sequence that holds one
TaskIn(tasks, t) == tasks[find(tasks, t)]
Has(tasks, t) == find(tasks, t) # 0
Ids(tasks) == {tasks[i].id : i \in 1..Len(tasks)}
\* The elements of an array
Elems(arr) == {arr[i] : i \in 1..Len(arr)}

----------------------------------------------------------------------------
(* Spec and SpecGraph: one caller, one engine call at a time.  An action is a
   whole handler; max is the number of calls the behaviour may make and
   maxTasks the number of tasks a project may hold. *)

NoCall ==
    [op |-> "", project |-> "", taskId |-> "", arg |-> "", err |-> "",
     ret |-> "", unblocked |-> <<>>, loads |-> 0, saves |-> 0, list |-> <<>>,
     blockedBy |-> <<>>]

Idle == [pc |-> "idle", op |-> "", project |-> "", taskId |-> "", arg |-> "",
         data |-> <<>>, snap |-> <<>>, stale |-> FALSE, err |-> "", ret |-> "",
         unblocked |-> <<>>]

Init ==
    /\ root = TRUE
    /\ files = [p \in Projects |-> <<>>]
    /\ today = 1
    /\ last = NoCall
    /\ nops = 0
    /\ issued = [p \in Projects |-> <<>>]
    /\ proc = [c \in Callers |-> Idle]
    /\ swept = [p \in Projects |-> {}]

\* The call op(project, taskId, arg), with the list blockedBy when it takes
\* one, ran and gave r
Did(op, project, taskId, arg, blockedBy, r) ==
    /\ files' = r.st.files
    /\ last' = [op |-> op, project |-> project, taskId |-> taskId, arg |-> arg,
                err |-> r.err, ret |-> r.ret, unblocked |-> r.unblocked,
                loads |-> r.st.reads, saves |-> r.st.writes, list |-> <<>>,
                blockedBy |-> blockedBy]
    /\ nops' = nops + 1
    /\ issued' = IF op \in {"addTask", "task_create"} /\ r.err = ""
                 THEN [issued EXCEPT ![project] = Append(@, r.ret)]
                 ELSE issued
    /\ UNCHANGED <<root, today, proc>>

Ran(op, project, taskId, arg, r) ==
    /\ Did(op, project, taskId, arg, <<>>, r)
    /\ UNCHANGED swept

AddTask(project, subject, max, maxTasks) ==
    /\ nops < max
    /\ Len(Tasks(project)) < maxTasks
    /\ Ran("addTask", project, "", subject,
        addTask(Storage(files), project, subject, today))

UpdateTaskStatus(project, taskId, status, max) ==
    /\ nops < max
    /\ Ran("updateTaskStatus", project, taskId, status,
        updateTaskStatus(Storage(files), project, taskId, status, today))

SetBlocker(project, taskId, blockerId, max) ==
    /\ nops < max
    /\ Ran("setBlocker", project, taskId, blockerId,
        setBlocker(Storage(files), project, taskId, blockerId, today))

UpdateTaskNotes(project, taskId, notes, max) ==
    /\ nops < max
    /\ Ran("updateTaskNotes", project, taskId, notes,
        updateTaskNotes(Storage(files), project, taskId, notes, today))

Next ==
    \/ \E p \in Worked, s \in Subjects : AddTask(p, s, MaxOps, MaxTasks)
    \/ \E p \in Worked, t \in IdInputs, s \in TaskStatus :
          UpdateTaskStatus(p, t, s, MaxOps)
    \/ \E p \in Worked, t \in IdInputs, b \in IdInputs :
          SetBlocker(p, t, b, MaxOps)
    \/ \E p \in Worked, t \in IdInputs, n \in NotesIn :
          UpdateTaskNotes(p, t, n, MaxOps)

Spec == Init /\ [][Next]_vars

\* The calls that read or write status, blockedBy and blocks, made with the
\* ids of tasks the project holds
NextGraph ==
    \/ \E p \in Worked, s \in Subjects : AddTask(p, s, MaxGraphOps, MaxTasks)
    \/ \E p \in Worked : \E t \in Ids(Tasks(p)), s \in TaskStatus :
          UpdateTaskStatus(p, t, s, MaxGraphOps)
    \/ \E p \in Worked : \E t \in Ids(Tasks(p)), b \in Ids(Tasks(p)) :
          SetBlocker(p, t, b, MaxGraphOps)

SpecGraph == Init /\ [][NextGraph]_vars

\* The four handlers, where updateTaskStatus is never given the status blocked
NextNoBlockedArg ==
    \/ \E p \in Worked, s \in Subjects : AddTask(p, s, MaxOps, MaxTasks)
    \/ \E p \in Worked, t \in IdInputs, s \in TaskStatus \ {"blocked"} :
          UpdateTaskStatus(p, t, s, MaxOps)
    \/ \E p \in Worked, t \in IdInputs, b \in IdInputs :
          SetBlocker(p, t, b, MaxOps)
    \/ \E p \in Worked, t \in IdInputs, n \in NotesIn :
          UpdateTaskNotes(p, t, n, MaxOps)

SpecNoBlockedArg == Init /\ [][NextNoBlockedArg]_vars

\* The tool task_create, called with (project, subject, blockedBy)
TaskCreate(project, subject, blockedBy, max, maxTasks) ==
    /\ nops < max
    /\ Len(Tasks(project)) < maxTasks
    /\ Did("task_create", project, "", subject, blockedBy,
           task_create(Storage(files), project, subject, blockedBy, today))
    /\ UNCHANGED swept

\* task_create with every list, between status changes
NextTool ==
    \/ \E p \in Worked, s \in Subjects, l \in BlockedByInputs :
          TaskCreate(p, s, l, MaxToolOps, MaxToolTasks)
    \/ \E p \in Worked : \E t \in Ids(Tasks(p)), s \in TaskStatus :
          UpdateTaskStatus(p, t, s, MaxToolOps)

SpecTool == Init /\ [][NextTool]_vars

\* No task of the project has been swept yet
Building(project) == swept[project] = {}

\* updateTaskStatus(project, taskId, "completed"), as a call of the sweep
Sweep(project, taskId) ==
    /\ taskId \notin swept[project]
    /\ Did("updateTaskStatus", project, taskId, "completed", <<>>,
           updateTaskStatus(Storage(files), project, taskId, "completed", today))
    /\ swept' = [swept EXCEPT ![project] = @ \cup {taskId}]

\* The handlers of SpecGraph until the sweep begins, then only the sweep
NextSweep ==
    \/ \E p \in Worked, s \in Subjects :
          Building(p) /\ AddTask(p, s, MaxSweepOps, MaxTasks)
    \/ \E p \in Worked : \E t \in Ids(Tasks(p)), s \in TaskStatus :
          Building(p) /\ UpdateTaskStatus(p, t, s, MaxSweepOps)
    \/ \E p \in Worked : \E t \in Ids(Tasks(p)), b \in Ids(Tasks(p)) :
          Building(p) /\ SetBlocker(p, t, b, MaxSweepOps)
    \/ \E p \in Worked : \E t \in Ids(Tasks(p)) : Sweep(p, t)

SpecSweep == Init /\ [][NextSweep]_vars

----------------------------------------------------------------------------
(* SpecConc: two callers (processes sharing the tasks directory), each running
   one engine call at a time.  A step is one file-system call of the handler
   together with the in-memory code that follows it up to the next one.
     pc = "idle"    no call in flight; op, err, ret, unblocked are those of
                    the caller's last call
     pc = "create"  addTask found no project: createProject is about to save
     pc = "save"    data is mutated in memory; the handler's save is next
   snap is the file content the call loaded; stale says that another caller
   has written the project since. *)

\* The handler's code between getProject and saveProject
Body(op, val, taskId, arg) ==
    CASE op = "addTask" -> addTaskBody(val[1], arg)
      [] op = "updateTaskStatus" -> updateTaskStatusBody(val, taskId, arg)
      [] op = "setBlocker" -> setBlockerBody(val, taskId, arg)
      [] op = "updateTaskNotes" -> updateTaskNotesBody(val, taskId, arg)

\* The callers other than c that are between their load and their save of
\* project see it written under them
Overwritten(c, project) ==
    [d \in Callers |->
        IF d # c /\ proc[d].pc # "idle" /\ proc[d].project = project
        THEN [proc[d] EXCEPT !.stale = TRUE]
        ELSE proc[d]]

\* Caller c calls op(project, taskId, arg): the handler's getProject, and its
\* code up to the next file-system call
Begin(c, op, project, taskId, arg) ==
    LET g == getProject(Storage(files), project)
        create == op = "addTask" /\ g.val = Null
        m == IF create THEN Ready(<<>>, "", <<>>) ELSE Body(op, g.val, taskId, arg)
    IN /\ proc[c].pc = "idle"
       /\ nops < MaxCalls
       /\ op = "addTask" => Len(Tasks(project)) < MaxTasks
       /\ proc' = [proc EXCEPT ![c] =
                      [pc |-> IF create THEN "create"
                              ELSE IF m.err # "" THEN "idle" ELSE "save",
                       op |-> op, project |-> project, taskId |-> taskId,
                       arg |-> arg,
                       data |-> IF create THEN <<>> ELSE m.data,
                       snap |-> files[project], stale |-> FALSE,
                       err |-> m.err, ret |-> m.ret, unblocked |-> m.unblocked]]
       /\ nops' = nops + 1
       /\ UNCHANGED <<root, files, today, last, issued, swept>>

\* Caller c, in addTask: createProject saves the new project; addTask then
\* builds the task and pushes it
CreateSave(c) ==
    LET cr == createProject(Storage(files), proc[c].project, today)
        m == addTaskBody(cr.data, proc[c].arg)
    IN /\ proc[c].pc = "create"
       /\ files' = cr.st.files
       /\ proc' = [Overwritten(c, proc[c].project) EXCEPT ![c] =
                      [proc[c] EXCEPT !.pc = "save", !.data = m.data,
                                      !.ret = m.ret]]
       /\ UNCHANGED <<root, today, last, nops, issued, swept>>

\* Variant of Save: the handler loads the record again and applies its change
\* to what it finds, instead of writing the data it loaded at the start
Save_Reloads(c) ==
    /\ proc[c].pc = "save"
    /\ files' = Handler(proc[c].op, Storage(files), proc[c].project,
                        proc[c].taskId, proc[c].arg, today).st.files
    /\ proc' = [Overwritten(c, proc[c].project) EXCEPT ![c] =
                   [proc[c] EXCEPT !.pc = "idle", !.data = <<>>]]
    /\ issued' = IF proc[c].op = "addTask"
                 THEN [issued EXCEPT ![proc[c].project] = Append(@, proc[c].ret)]
                 ELSE issued
    /\ UNCHANGED <<root, today, last, nops, swept>>

\* Caller c: the handler's saveProject(data), and its return
Save(c) ==
    /\ proc[c].pc = "save"
    /\ files' = saveProject(Storage(files), proc[c].data[1], today).st.files
    /\ proc' = [Overwritten(c, proc[c].project) EXCEPT ![c] =
                   [proc[c] EXCEPT !.pc = "idle", !.data = <<>>]]
    /\ issued' = IF proc[c].op = "addTask"
                 THEN [issued EXCEPT ![proc[c].project] = Append(@, proc[c].ret)]
                 ELSE issued
    /\ UNCHANGED <<root, today, last, nops, swept>>

NextConc ==
    \/ \E c \in Callers, p \in Worked, s \in Subjects :
          Begin(c, "addTask", p, "", s)
    \/ \E c \in Callers, p \in Worked, t \in IdInputs, s \in TaskStatus :
          Begin(c, "updateTaskStatus", p, t, s)
    \/ \E c \in Callers, p \in Worked, t \in IdInputs, b \in IdInputs :
          Begin(c, "setBlocker", p, t, b)
    \/ \E c \in Callers, p \in Worked, t \in IdInputs, n \in NotesIn :
          Begin(c, "updateTaskNotes", p, t, n)
    \/ \E c \in Callers : CreateSave(c)
    \/ \E c \in Callers : Save(c)

SpecConc == Init /\ [][NextConc]_vars

----------------------------------------------------------------------------
(* SpecStore: one caller working on every project of the directory, through
   the engine and through the store's own operations; the clock advances, and
   the directory can be removed, made again by the constructor, and hold a
   file that a write left empty. *)

\* The query op(project) ran and gave list
Asked(op, project, list) ==
    /\ last' = [NoCall EXCEPT !.op = op, !.project = project, !.list = list]
    /\ nops' = nops + 1
    /\ UNCHANGED <<root, files, today, issued, proc, swept>>

\* Something happened that is not a call of the store
Outside(what, project) ==
    /\ last' = [NoCall EXCEPT !.op = what, !.project = project]
    /\ nops' = nops + 1
    /\ UNCHANGED <<issued, proc, swept>>

CreateProject(project) ==
    LET c == createProject(Storage(files), project, today)
    IN /\ nops < MaxStoreOps
       /\ Ran("createProject", project, "", "",
              IF c.err # "" THEN Throw(c.st, c.err) ELSE Return(c.st, "", <<>>))

\* A caller changes the status of a project it loaded and saves it
SaveProject(project, status) ==
    LET g == getProject(Storage(files), project)
        s == saveProject(g.st, [g.val[1] EXCEPT !.status = status], today)
    IN /\ nops < MaxStoreOps
       /\ g.val # Null
       /\ Ran("saveProject", project, "", status, Return(s.st, "", <<>>))

ListProjects ==
    /\ nops < MaxStoreOps
    /\ Asked("listProjects", "", listProjects(Storage(files)))

GetActiveProjects ==
    /\ nops < MaxStoreOps
    /\ Asked("getActiveProjects", "", getActiveProjects(Storage(files)))

GetProject(project) ==
    /\ nops < MaxStoreOps
    /\ Asked("getProject", project, getProject(Storage(files), project).val)

\* Midnight passes: new Date() gives the next day
Tick ==
    /\ nops < MaxStoreOps
    /\ today' = today + 1
    /\ root' = root
    /\ files' = files
    /\ Outside("midnight", "")

\* The tasks directory is removed with its files
RemoveRoot ==
    /\ nops < MaxStoreOps
    /\ root
    /\ root' = FALSE
    /\ files' = [p \in Projects |-> <<>>]
    /\ today' = today
    /\ Outside("rm", "")

\* new TaskStorage(tasksDir, plansDir): mkdirSync(tasksDir, { recursive: true })
Construct ==
    /\ nops < MaxStoreOps
    /\ root' = TRUE
    /\ files' = files
    /\ today' = today
    /\ Outside("constructor", "")

\* A writeFileSync of the file of project was cut short: the file is empty
Truncated(project) ==
    /\ nops < MaxStoreOps
    /\ root
    /\ root' = root
    /\ files' = [files EXCEPT ![project] = << <<>> >>]
    /\ today' = today
    /\ Outside("truncate", project)

NextStore ==
    \/ \E p \in Projects : CreateProject(p)
    \/ \E p \in Projects, s \in ProjectStatus : SaveProject(p, s)
    \/ \E p \in Projects, s \in Subjects : AddTask(p, s, MaxStoreOps, MaxStoreTasks)
    \/ \E p \in Projects, t \in StoreIds, s \in TaskStatus :
          UpdateTaskStatus(p, t, s, MaxStoreOps)
    \/ \E p \in Projects, t \in StoreIds, b \in StoreIds :
          SetBlocker(p, t, b, MaxStoreOps)
    \/ \E p \in Projects, t \in StoreIds, n \in NotesIn :
          UpdateTaskNotes(p, t, n, MaxStoreOps)
    \/ ListProjects
    \/ GetActiveProjects
    \/ \E p \in Projects : GetProject(p)
    \/ Tick
    \/ RemoveRoot
    \/ Construct
    \/ \E p \in Projects : Truncated(p)

SpecStore == Init /\ [][NextStore]_vars

----------------------------------------------------------------------------
(* Vocabulary of the properties *)

\* The step is the call op, made on project p
Called(op, p) == last'.op = op /\ last'.project = p /\ nops' = nops + 1
\* The tasks of p after the step
TasksAfter(p) == TasksOf(files'[p])
NotFound == {"Project not found", "Task not found"}
\* The record of p loads from the files fs
Loads(fs, p) == getProject(Storage(fs), p).val # Null
\* The record of p in the files fs, when it loads
Record(fs, p) == getProject(Storage(fs), p).val[1]

\* arr without every occurrence of x, order kept
RECURSIVE Without(_, _)
Without(arr, x) ==
    IF arr = <<>> THEN <<>>
    ELSE IF Head(arr) = x THEN Without(Tail(arr), x)
    ELSE <<Head(arr)>> \o Without(Tail(arr), x)

\* The ids of the tasks at the indices of S, in task-sequence order
RECURSIVE IdsInOrder(_, _, _)
IdsInOrder(tasks, S, i) ==
    IF i > Len(tasks) THEN <<>>
    ELSE (IF i \in S THEN <<tasks[i].id>> ELSE <<>>) \o IdsInOrder(tasks, S, i + 1)

NoDuplicates(arr) == \A i, j \in 1..Len(arr) : arr[i] = arr[j] => i = j

\* The step completes task A of p
Completes(p, A) ==
    /\ Called("updateTaskStatus", p)
    /\ last'.taskId = A
    /\ last'.arg = "completed"
    /\ last'.err = ""

\* Indices of the tasks that completing A frees: they list A as their only
\* blocker and are blocked
FreedBy(tasks, A) ==
    {i \in 1..Len(tasks) : /\ includes(tasks[i].blockedBy, A)
                           /\ Elems(tasks[i].blockedBy) = {A}
                           /\ tasks[i].status = "blocked"}

----------------------------------------------------------------------------
(* C1 *)

\* C1: blockedBy and blocks of one project are exact inverses: for all tasks
\* t and b, b.id is in t.blockedBy if and only if t.id is in b.blocks.
C1_ExactInverse ==
    \A p \in Worked : \A i, j \in 1..Len(Tasks(p)) :
        includes(Tasks(p)[i].blockedBy, Tasks(p)[j].id)
            <=> includes(Tasks(p)[j].blocks, Tasks(p)[i].id)

----------------------------------------------------------------------------
(* C2 *)

\* C2 as stated: completing A removes A from every blockedBy, and unblocked is
\* exactly, in task order and without duplicates, the tasks that had A in
\* blockedBy, whose blockedBy became empty and whose status was blocked before
\* the call; each of them is pending afterwards.
C2_AsStated ==
    [][\A p \in Worked, A \in IdInputs :
        Completes(p, A) =>
            /\ \A i \in 1..Len(Tasks(p)) :
                  Elems(TasksAfter(p)[i].blockedBy)
                      = Elems(Tasks(p)[i].blockedBy) \ {A}
            /\ last'.unblocked = IdsInOrder(Tasks(p), FreedBy(Tasks(p), A), 1)
            /\ NoDuplicates(last'.unblocked)
            /\ \A i \in FreedBy(Tasks(p), A) :
                  TasksAfter(p)[i].status = "pending"]_vars

\* C2, amended: the same, where the tasks reported and turned to pending are
\* the tasks other than A itself.
C2_Unblocked ==
    [][\A p \in Worked, A \in IdInputs :
        Completes(p, A) =>
            LET freed == {i \in FreedBy(Tasks(p), A) : Tasks(p)[i].id # A}
            IN /\ \A i \in 1..Len(Tasks(p)) :
                     Elems(TasksAfter(p)[i].blockedBy)
                         = Elems(Tasks(p)[i].blockedBy) \ {A}
               /\ last'.unblocked = IdsInOrder(Tasks(p), freed, 1)
               /\ NoDuplicates(last'.unblocked)
               /\ \A i \in freed : TasksAfter(p)[i].status = "pending"]_vars

\* Completing task 1 has just unblocked tasks 2 and 3 together
C2_Witness ==
    /\ last.op = "updateTaskStatus" /\ last.arg = "completed" /\ last.err = ""
    /\ last.taskId = "1"
    /\ last.unblocked = <<"2", "3">>
    /\ TaskIn(Tasks("p"), "2").status = "pending"
    /\ TaskIn(Tasks("p"), "3").status = "pending"

----------------------------------------------------------------------------
(* C3 *)

\* C3: completing A changes the status of a task t other than A only from
\* blocked to pending with blockedBy emptied by the call.  A task that keeps
\* another blocker keeps its status, has blockedBy = old blockedBy minus A and
\* is not in unblocked; a task whose blockedBy becomes empty but that was not
\* blocked keeps its status and is not in unblocked.
C3_OnlyBlockedToPending ==
    [][\A p \in Worked, A \in IdInputs :
        Completes(p, A) =>
            \A i \in 1..Len(Tasks(p)) :
                LET t == Tasks(p)[i]
                    u == TasksAfter(p)[i]
                IN t.id # A =>
                    /\ u.status # t.status =>
                          /\ t.status = "blocked" /\ u.status = "pending"
                          /\ includes(t.blockedBy, A) /\ u.blockedBy = <<>>
                    /\ (includes(t.blockedBy, A) /\ Elems(t.blockedBy) # {A}) =>
                          /\ u.status = t.status
                          /\ u.blockedBy = Without(t.blockedBy, A)
                          /\ ~includes(last'.unblocked, t.id)
                    /\ (Elems(t.blockedBy) = {A} /\ t.status # "blocked") =>
                          /\ u.status = t.status
                          /\ u.blockedBy = <<>>
                          /\ ~includes(last'.unblocked, t.id)]_vars

\* Completing task 1 has left task 3 blocked by task 2 alone, and nothing
\* was unblocked
C3_Witness ==
    /\ last.op = "updateTaskStatus" /\ last.arg = "completed" /\ last.err = ""
    /\ last.taskId = "1"
    /\ last.unblocked = <<>>
    /\ Has(Tasks("p"), "3")
    /\ TaskIn(Tasks("p"), "3").status = "blocked"
    /\ TaskIn(Tasks("p"), "3").blockedBy = <<"2">>
    /\ includes(TaskIn(Tasks("p"), "1").blocks, "3")

----------------------------------------------------------------------------
(* C4 *)

\* tasks is the chain 1 <- 2 <- 3: three tasks, 2 blocked by 1 alone and 3
\* blocked by 2 alone
Chain(tasks) ==
    /\ Len(tasks) = 3
    /\ tasks[1].id = "1" /\ tasks[2].id = "2" /\ tasks[3].id = "3"
    /\ tasks[1].blockedBy = <<>>
    /\ tasks[2].blockedBy = <<"1">> /\ tasks[2].status = "blocked"
    /\ tasks[3].blockedBy = <<"2">> /\ tasks[3].status = "blocked"

\* The chain after task 1 was completed
ChainHead(tasks) ==
    /\ Len(tasks) = 3
    /\ tasks[1].id = "1" /\ tasks[2].id = "2" /\ tasks[3].id = "3"
    /\ tasks[1].blockedBy = <<>> /\ tasks[1].status = "completed"
    /\ tasks[2].blockedBy = <<>> /\ tasks[2].status = "pending"
    /\ tasks[3].blockedBy = <<"2">> /\ tasks[3].status = "blocked"

\* C4: the cascade is single-hop.  Completing A leaves the status and the
\* blockedBy of every task other than A that does not list A as they were.
\* In the chain 1 <- 2 <- 3, completing 1 unblocks 2 and leaves 3 blocked
\* with blockedBy = [2]; completing 2 then unblocks 3, and no task is
\* blocked any more.
C4_SingleHop ==
    [][\A p \in Worked, A \in IdInputs :
        Completes(p, A) =>
            /\ \A i \in 1..Len(Tasks(p)) :
                  (Tasks(p)[i].id # A /\ ~includes(Tasks(p)[i].blockedBy, A)) =>
                      /\ TasksAfter(p)[i].status = Tasks(p)[i].status
                      /\ TasksAfter(p)[i].blockedBy = Tasks(p)[i].blockedBy
            /\ (A = "1" /\ Chain(Tasks(p))) =>
                  /\ last'.unblocked = <<"2">>
                  /\ ChainHead(TasksAfter(p))
            /\ (A = "2" /\ ChainHead(Tasks(p))) =>
                  /\ last'.unblocked = <<"3">>
                  /\ TasksAfter(p)[3].status = "pending"
                  /\ \A i \in 1..3 : TasksAfter(p)[i].status # "blocked"]_vars

\* The chain 1 <- 2 <- 3 was built and tasks 1 and 2 were completed, in the
\* seven calls that takes: the second completion unblocked task 3
C4_Witness ==
    /\ nops = 7
    /\ last.op = "updateTaskStatus" /\ last.arg = "completed" /\ last.err = ""
    /\ last.taskId = "2"
    /\ last.unblocked = <<"3">>
    /\ Len(Tasks("p")) = 3
    /\ Tasks("p")[1].status = "completed" /\ Tasks("p")[1].blocks = <<"2">>
    /\ Tasks("p")[2].status = "completed" /\ Tasks("p")[2].blocks = <<"3">>
    /\ Tasks("p")[3].status = "pending" /\ Tasks("p")[3].blockedBy = <<>>

----------------------------------------------------------------------------
(* C5 *)

\* C5: after a successful setBlocker(p, t, b), b is in the blockedBy of t and
\* t is in the blocks of b; the same call made again right after it leaves
\* every field of every task as it was.
C5_LinkIdempotent ==
    [][\A p \in Worked :
        (Called("setBlocker", p) /\ last'.err = "") =>
            LET after == TasksAfter(p)
            IN /\ includes(TaskIn(after, last'.taskId).blockedBy, last'.arg)
               /\ includes(TaskIn(after, last'.arg).blocks, last'.taskId)
               /\ (/\ last.op = "setBlocker" /\ last.err = "" /\ last.project = p
                   /\ last.taskId = last'.taskId /\ last.arg = last'.arg)
                     => after = Tasks(p)]_vars

\* setBlocker(p, 2, 1) ran twice in a row; task 2 lists task 1 once
C5_Witness ==
    /\ nops = 4
    /\ last.op = "setBlocker" /\ last.err = ""
    /\ last.taskId = "2" /\ last.arg = "1"
    /\ TaskIn(Tasks("p"), "2").blockedBy = <<"1">>
    /\ TaskIn(Tasks("p"), "1").blocks = <<"2">>

----------------------------------------------------------------------------
(* C6 *)

\* C6: within one project the ids addTask returns are strictly increasing
\* positive integers, none is returned twice, and no two tasks have one id.
C6_IdsIncrease ==
    \A p \in Worked :
        /\ \A i \in 1..Len(issued[p]) :
              /\ parseIntOr0(issued[p][i]) > 0
              /\ String(parseIntOr0(issued[p][i])) = issued[p][i]
        /\ \A i, j \in 1..Len(issued[p]) :
              i < j => parseIntOr0(issued[p][i]) < parseIntOr0(issued[p][j])
        /\ \A i, j \in 1..Len(Tasks(p)) :
              Tasks(p)[i].id = Tasks(p)[j].id => i = j

\* Three tasks were created with status, notes and blocker calls in between
C6_Witness ==
    /\ Len(issued["p"]) = 3
    /\ nops > 3
    /\ last.op = "addTask" /\ last.ret = "3"
    /\ \E i \in 1..2 : Tasks("p")[i].status # "pending"

----------------------------------------------------------------------------
(* C7 *)

\* C7: updateTaskStatus, setBlocker and updateTaskNotes throw a not-found
\* error when the project has no record or a task id they are given is not
\* in the project; the call then made no save and left every file as it was.
C7_NotFoundNoEffect ==
    [][\A p \in Worked :
        \A op \in {"updateTaskStatus", "setBlocker", "updateTaskNotes"} :
            Called(op, p) =>
                /\ (\/ ~Exists(p)
                    \/ ~Has(Tasks(p), last'.taskId)
                    \/ (op = "setBlocker" /\ ~Has(Tasks(p), last'.arg)))
                      => last'.err \in NotFound
                /\ last'.err # "" =>
                      /\ last'.err \in NotFound
                      /\ last'.saves = 0
                      /\ files' = files]_vars

\* setBlocker failed on a blocker id that is not in the project, while the
\* task id is
C7_Witness ==
    /\ last.op = "setBlocker" /\ last.err = "Task not found"
    /\ Exists("p")
    /\ Has(Tasks("p"), last.taskId)
    /\ ~Has(Tasks("p"), last.arg)
    /\ last.saves = 0

----------------------------------------------------------------------------
(* C9 *)

\* C9: every engine call makes one load and, when it returns, exactly one
\* save; a call that throws makes no save.
C9_OneLoadOneSave ==
    last.op # "" =>
        /\ last.loads = 1
        /\ last.err = "" => last.saves = 1
        /\ last.err # "" => last.saves = 0

----------------------------------------------------------------------------
(* C8 *)

\* The file of the call's project, had the call of caller c run alone on the
\* record it loaded
AloneOn(c) ==
    Handler(proc[c].op,
            Storage([files EXCEPT ![proc[c].project] = proc[c].snap]),
            proc[c].project, proc[c].taskId, proc[c].arg, today
           ).st.files[proc[c].project]

\* Callers d and c loaded the same record of one project, d then saved and
\* returned, and c has not saved since its load: the steps went load, load,
\* save of d, with the save of c still to come
Raced(d, c) ==
    /\ c # d
    /\ proc[c].stale
    /\ proc[d].pc = "idle" /\ proc[d].op # "" /\ proc[d].err = ""
    /\ proc[d].project = proc[c].project
    /\ proc[d].snap = proc[c].snap

\* C8: when two calls on one project interleave as load, load, save, save,
\* the record stored at the end is the result of the second writer's call
\* alone on the record as it was before both.
C8_LostUpdate ==
    [][\A c, d \in Callers :
        (Raced(d, c) /\ proc[c].pc = "save" /\ proc'[c].pc = "idle") =>
            files'[proc[c].project] = AloneOn(c)]_vars

\* Both callers have returned from calls that loaded the same record; the
\* first writer created task 2 and got its id back, and the stored project
\* has no task 2
C8_Witness ==
    \E c, d \in Callers :
        /\ Raced(d, c)
        /\ proc[c].pc = "idle" /\ proc[c].err = ""
        /\ proc[c].op = "updateTaskStatus"
        /\ proc[d].op = "addTask" /\ proc[d].ret = "2"
        /\ ~Has(Tasks(proc[d].project), "2")

----------------------------------------------------------------------------
(* C10 *)

\* C10: the stored record is never an intermediate state of an engine call:
\* while one call is in flight, and nobody else writes, the file holds the
\* record the call loaded or the record with the call's complete effect.
C10_NoIntermediate ==
    \A c \in Callers :
        (/\ proc[c].pc # "idle"
         /\ ~proc[c].stale
         /\ \A d \in Callers \ {c} : proc[d].pc = "idle")
            => \/ files[proc[c].project] = proc[c].snap
               \/ files[proc[c].project] = AloneOn(c)

----------------------------------------------------------------------------
(* C11 *)

CoreOps ==
    {"createProject", "addTask", "setBlocker", "updateTaskStatus", "updateTaskNotes"}

\* C11: a call of createProject, addTask, setBlocker, updateTaskStatus or
\* updateTaskNotes never removes a project record that exists, and the task
\* sequence of every project only grows at its end: each task is afterwards
\* at the same position with the same id and the same subject.
C11_OnlyGrows ==
    [][\A p \in Projects :
        (last'.op \in CoreOps /\ nops' = nops + 1 /\ Loads(files, p)) =>
            /\ Loads(files', p)
            /\ Len(TasksAfter(p)) >= Len(Tasks(p))
            /\ \A i \in 1..Len(Tasks(p)) :
                  /\ TasksAfter(p)[i].id = Tasks(p)[i].id
                  /\ TasksAfter(p)[i].subject = Tasks(p)[i].subject]_vars

----------------------------------------------------------------------------
(* C12 *)

\* The largest number among the ids of tasks, 0 when there is none
MaxIdOf(tasks) ==
    LET ns == {parseIntOr0(tasks[i].id) : i \in 1..Len(tasks)} \cup {0}
    IN CHOOSE n \in ns : \A m \in ns : m <= n

\* C12: addTask(p, subject) never throws a not-found error.  When p has no
\* record it creates the project with status active; in every case the task
\* sequence afterwards is the one before with one task appended, whose id is
\* 1 + the largest existing id ("1" in an empty project), with status
\* pending, empty blockedBy, blocks and notes; that id is returned.
C12_CreateTask ==
    [][\A p \in Worked :
        Called("addTask", p) =>
            /\ last'.err = ""
            /\ Loads(files', p)
            /\ ~Loads(files, p) => Record(files', p).status = "active"
            /\ last'.ret = String(MaxIdOf(Tasks(p)) + 1)
            /\ TasksAfter(p) =
                  Append(Tasks(p),
                         [id |-> String(MaxIdOf(Tasks(p)) + 1),
                          subject |-> last'.arg, status |-> "pending",
                          blockedBy |-> <<>>, blocks |-> <<>>, notes |-> ""])]_vars

\* Task 3 was added to a project whose task 1 has notes and blocks task 2
C12_Witness ==
    /\ last.op = "addTask" /\ last.ret = "3"
    /\ Len(Tasks("p")) = 3
    /\ Tasks("p")[1].notes = "n" /\ Tasks("p")[1].blocks = <<"2">>
    /\ Tasks("p")[2].status = "blocked" /\ Tasks("p")[2].blockedBy = <<"1">>
    /\ Tasks("p")[3].id = "3" /\ Tasks("p")[3].status = "pending"

----------------------------------------------------------------------------
(* C13 *)

\* C13: a successful setBlocker(p, t, b) leaves t blocked whenever b was not
\* in the blockedBy of t, whatever the status of t was; when b was already
\* there it leaves the status of t as it was.
C13_ForcesBlocked ==
    [][\A p \in Worked :
        (Called("setBlocker", p) /\ last'.err = "") =>
            LET t == TaskIn(Tasks(p), last'.taskId)
                u == TaskIn(TasksAfter(p), last'.taskId)
            IN /\ ~includes(t.blockedBy, last'.arg) => u.status = "blocked"
               /\ includes(t.blockedBy, last'.arg) => u.status = t.status]_vars

\* Task 2, blocked by task 1 and then set in progress, was linked to task 1
\* again and is still in progress
C13_Witness ==
    /\ last.op = "setBlocker" /\ last.err = ""
    /\ last.taskId = "2" /\ last.arg = "1"
    /\ TaskIn(Tasks("p"), "2").status = "in_progress"
    /\ TaskIn(Tasks("p"), "2").blockedBy = <<"1">>

----------------------------------------------------------------------------
(* C14 *)

\* The stored projects whose record loads and has status active
ActiveStored ==
    {p \in Projects : Loads(files, p) /\ Record(files, p).status = "active"}

\* C14: listProjects and getActiveProjects return (they never throw); with
\* no directory or no file in it they return an empty sequence; otherwise
\* getActiveProjects returns exactly the stored projects whose record loads
\* and has status active, each once; getProject of a name without a file
\* returns null.
C14_QueriesDegrade ==
    /\ last.op \in {"listProjects", "getActiveProjects", "getProject"} =>
          last.err = ""
    /\ (/\ last.op \in {"listProjects", "getActiveProjects"}
        /\ \A p \in Projects : files[p] = <<>>) => last.list = <<>>
    /\ last.op = "getActiveProjects" =>
          /\ {last.list[i].project : i \in 1..Len(last.list)} = ActiveStored
          /\ \A i \in 1..Len(last.list) :
                /\ last.list[i].status = "active"
                /\ last.list[i].project \in ActiveStored
                      => last.list[i] = Record(files, last.list[i].project)
          /\ \A i, j \in 1..Len(last.list) :
                last.list[i].project = last.list[j].project => i = j
    /\ (last.op = "getProject" /\ files[last.project] = <<>>) => last.list = Null

----------------------------------------------------------------------------
(* C15 *)

----------------------------------------------------------------------------
(* C16 *)

\* C16: a successful updateTaskNotes(p, t, notes) leaves the task t with
\* exactly the given notes and changes nothing else in the project but the
\* updated stamp: the tasks are the same in number and order, each with its
\* id, subject, status, blockedBy and blocks, every other task with its
\* notes, and the project keeps its name, status and created date.
C16_NotesFrame ==
    [][\A p \in Projects :
        (Called("updateTaskNotes", p) /\ last'.err = "") =>
            /\ Loads(files', p)
            /\ Record(files', p).project = Record(files, p).project
            /\ Record(files', p).status = Record(files, p).status
            /\ Record(files', p).created = Record(files, p).created
            /\ Len(TasksAfter(p)) = Len(Tasks(p))
            /\ \A i \in 1..Len(Tasks(p)) :
                  LET t == Tasks(p)[i]
                      u == TasksAfter(p)[i]
                  IN /\ u.id = t.id /\ u.subject = t.subject
                     /\ u.status = t.status
                     /\ u.blockedBy = t.blockedBy /\ u.blocks = t.blocks
                     /\ u.notes = IF t.id = last'.taskId THEN last'.arg
                                  ELSE t.notes]_vars

\* The notes of task 1 were set in a paused project, where task 1 is blocked
\* and lists a blocker
C16_Witness ==
    /\ last.op = "updateTaskNotes" /\ last.err = "" /\ last.taskId = "1"
    /\ Loads(files, last.project)
    /\ Record(files, last.project).status = "paused"
    /\ Len(Tasks(last.project)) = 1
    /\ Tasks(last.project)[1].notes = "n"
    /\ Tasks(last.project)[1].blockedBy = <<"1">>
    /\ Tasks(last.project)[1].status = "blocked"

----------------------------------------------------------------------------
(* C17 *)

\* C17: in every reachable state no blockedBy and no blocks holds an id twice.
C17_NoDuplicateEdges ==
    \A p \in Worked : \A i \in 1..Len(Tasks(p)) :
        /\ NoDuplicates(Tasks(p)[i].blockedBy)
        /\ NoDuplicates(Tasks(p)[i].blocks)

\* Tasks 1 and 2 are linked both ways, with task 1 completed before task 2
\* was linked to it: each list holds the other task once
C17_Witness ==
    /\ last.op = "setBlocker" /\ last.err = ""
    /\ last.taskId = "2" /\ last.arg = "1"
    /\ Len(Tasks("p")) = 2
    /\ Tasks("p")[1].status = "completed"
    /\ Tasks("p")[1].blockedBy = <<"2">> /\ Tasks("p")[1].blocks = <<"2">>
    /\ Tasks("p")[2].status = "blocked"
    /\ Tasks("p")[2].blockedBy = <<"1">> /\ Tasks("p")[2].blocks = <<"1">>

----------------------------------------------------------------------------
(* C18 *)

\* C18: a successful updateTaskStatus(p, A, s) with s other than completed
\* returns an empty unblocked list and changes the status of A and nothing
\* else: A keeps its blockedBy and blocks, and every other task keeps every
\* field.
C18_StatusOnly ==
    [][\A p \in Worked, A \in IdInputs :
        (/\ Called("updateTaskStatus", p) /\ last'.taskId = A
         /\ last'.arg # "completed" /\ last'.err = "") =>
            /\ last'.unblocked = <<>>
            /\ Len(TasksAfter(p)) = Len(Tasks(p))
            /\ \A i \in 1..Len(Tasks(p)) :
                  LET t == Tasks(p)[i]
                      u == TasksAfter(p)[i]
                  IN /\ u.id = t.id /\ u.subject = t.subject /\ u.notes = t.notes
                     /\ u.blockedBy = t.blockedBy /\ u.blocks = t.blocks
                     /\ u.status = IF t.id = A THEN last'.arg ELSE t.status]_vars

\* Task 1 had unblocked task 2 by completing and was moved back to pending:
\* task 2 is still pending with no blocker
C18_Witness ==
    /\ last.op = "updateTaskStatus" /\ last.err = ""
    /\ last.taskId = "1" /\ last.arg = "pending"
    /\ Len(Tasks("p")) = 2
    /\ Tasks("p")[1].status = "pending" /\ Tasks("p")[1].blocks = <<"2">>
    /\ Tasks("p")[2].status = "pending" /\ Tasks("p")[2].blockedBy = <<>>

----------------------------------------------------------------------------
(* C19 *)

\* C19: completing A leaves the blockedBy and the blocks of A itself as they
\* were, also when A lists itself as a blocker, and A is completed afterwards.
C19_CascadeSkipsSelf ==
    [][\A p \in Worked, A \in IdInputs :
        Completes(p, A) =>
            LET t == TaskIn(Tasks(p), A)
                u == TaskIn(TasksAfter(p), A)
            IN /\ u.blockedBy = t.blockedBy
               /\ u.blocks = t.blocks
               /\ u.status = "completed"]_vars

----------------------------------------------------------------------------
(* C20 *)

EngineOps == {"addTask", "setBlocker", "updateTaskStatus", "updateTaskNotes"}

\* The files with every project but p taken away
Only(p) == [q \in Projects |-> IF q = p THEN files[p] ELSE <<>>]

\* C20: addTask, setBlocker, updateTaskStatus and updateTaskNotes called on
\* project p leave the file of every other project as it was, and look task
\* ids up among the tasks of p only: the call fails or returns, and leaves
\* the file of p, as it would if p were the only project.
C20_OneProject ==
    [][\A p \in Projects : \A op \in EngineOps :
        Called(op, p) =>
            LET alone == Handler(op, Storage(Only(p)), p, last'.taskId,
                                 last'.arg, today)
            IN /\ \A q \in Projects \ {p} : files'[q] = files[q]
               /\ files'[p] = alone.st.files[p]
               /\ last'.err = alone.err
               /\ last'.ret = alone.ret
               /\ last'.unblocked = alone.unblocked
               /\ (op # "addTask" /\ last'.err = "") =>
                     /\ Has(Tasks(p), last'.taskId)
                     /\ op = "setBlocker" => Has(Tasks(p), last'.arg)]_vars

\* Both projects have a task 1; task 1 of p was completed while task 1 of
\* the other project lists a task 1 as its blocker, and still does
C20_Witness ==
    /\ last.op = "updateTaskStatus" /\ last.err = ""
    /\ last.project = "p" /\ last.taskId = "1" /\ last.arg = "completed"
    /\ Tasks("p")[1].status = "completed"
    /\ Len(Tasks("q.jsonl")) = 1
    /\ Tasks("q.jsonl")[1].id = "1"
    /\ Tasks("q.jsonl")[1].status = "blocked"
    /\ Tasks("q.jsonl")[1].blockedBy = <<"1">>

----------------------------------------------------------------------------
(* C21 *)

\* C21: when updateTaskStatus is never called with the status blocked, every
\* task whose status is blocked has a non-empty blockedBy.
C21_BlockedHasBlocker ==
    \A p \in Worked : \A i \in 1..Len(Tasks(p)) :
        Tasks(p)[i].status = "blocked" => Tasks(p)[i].blockedBy # <<>>

\* Task 3 listed tasks 1 and 2; completing task 1 left it blocked by task 2
C21_Witness ==
    /\ last.op = "updateTaskStatus" /\ last.arg = "completed" /\ last.err = ""
    /\ last.taskId = "1"
    /\ Len(Tasks("p")) = 3
    /\ Tasks("p")[3].status = "blocked" /\ Tasks("p")[3].blockedBy = <<"2">>
    /\ Tasks("p")[1].blocks = <<"3">>

----------------------------------------------------------------------------
(* C22 *)

----------------------------------------------------------------------------
(* C23 *)

\* C23: every id that occurs in some task's blockedBy or blocks is the id of
\* an existing task of the same project.
C23_NoDanglingEdge ==
    \A p \in Worked : \A i \in 1..Len(Tasks(p)) :
        /\ Elems(Tasks(p)[i].blockedBy) \subseteq Ids(Tasks(p))
        /\ Elems(Tasks(p)[i].blocks) \subseteq Ids(Tasks(p))

\* A link to a task that does not exist was refused, in a project that holds
\* an edge already
C23_Witness ==
    /\ last.op = "setBlocker" /\ last.err = "Task not found"
    /\ last.taskId = "1" /\ last.arg = "3"
    /\ Len(Tasks("p")) = 2
    /\ Tasks("p")[2].blockedBy = <<"1">> /\ Tasks("p")[1].blocks = <<"2">>

----------------------------------------------------------------------------
(* C24 *)

\* C24: the task ids of a project are exactly 1..n in sequence order: the
\* k-th task has id k.
C24_IdsCountUp ==
    \A p \in Worked : \A k \in 1..Len(Tasks(p)) : Tasks(p)[k].id = String(k)

\* The third task was added after links, status changes and notes on the
\* first two
C24_Witness ==
    /\ last.op = "addTask" /\ last.ret = "3"
    /\ Len(Tasks("p")) = 3
    /\ Tasks("p")[1].status = "completed"
    /\ Tasks("p")[1].blocks = <<"2">>
    /\ Tasks("p")[2].notes = "n"

----------------------------------------------------------------------------
(* C25 *)

\* C25: for all tasks t and b of a project, if b.id is in t.blockedBy then
\* t.id is in b.blocks, also after cascades.
C25_BlockedByHasBlocks ==
    \A p \in Worked : \A t, b \in 1..Len(Tasks(p)) :
        includes(Tasks(p)[t].blockedBy, Tasks(p)[b].id)
            => includes(Tasks(p)[b].blocks, Tasks(p)[t].id)

\* Task 3 listed tasks 1 and 2; the cascade of task 1 removed one blockedBy
\* entry and left the other, with both blocks entries in place
C25_Witness ==
    /\ last.op = "updateTaskStatus" /\ last.arg = "completed" /\ last.err = ""
    /\ last.taskId = "1"
    /\ Len(Tasks("p")) = 3
    /\ Tasks("p")[3].blockedBy = <<"2">>
    /\ Tasks("p")[1].blocks = <<"3">> /\ Tasks("p")[2].blocks = <<"3">>
    /\ Tasks("p")[1].status = "completed"

----------------------------------------------------------------------------
(* C26 *)

\* C26: once updateTaskStatus(p, t, completed) has been applied to every task
\* t of the project, in any order and with no setBlocker or other
\* updateTaskStatus call between, every task is completed with an empty
\* blockedBy; a task completed earlier in the sweep is never turned back by a
\* later cascade.
C26_SweepCompletes ==
    \A p \in Worked :
        /\ \A t \in swept[p] : TaskIn(Tasks(p), t).status = "completed"
        /\ (swept[p] # {} /\ swept[p] = Ids(Tasks(p)))
               => \A i \in 1..Len(Tasks(p)) :
                      /\ Tasks(p)[i].status = "completed"
                      /\ Tasks(p)[i].blockedBy = <<>>

\* The sweep is over on two tasks that blocked each other, the first also
\* itself: task 2 was swept first and its cascade emptied a list of task 1
\* only when task 1 was swept too
C26_Witness ==
    /\ swept["p"] = {"1", "2"}
    /\ Len(Tasks("p")) = 2
    /\ last.taskId = "1"
    /\ Tasks("p")[1].blocks = <<"1", "2">>
    /\ Tasks("p")[2].blocks = <<"1">>
    /\ Tasks("p")[1].status = "completed" /\ Tasks("p")[2].status = "completed"

----------------------------------------------------------------------------
(* C27 *)

\* C27: task_create with a blockedBy list always appends the task and
\* succeeds; each listed id that exists in the project (the new task's own
\* id included) is linked both ways, each listed id that does not exist is
\* ignored, and the new task is blocked if and only if some listed id exists,
\* pending with an empty blockedBy otherwise.
C27_TaskCreate ==
    [][\A p \in Worked :
        Called("task_create", p) =>
            LET before == Tasks(p)
                after == TasksAfter(p)
                n == Len(after)
                new == after[n]
                linked == Elems(last'.blockedBy) \cap Ids(after)
            IN /\ last'.err = ""
               /\ n = Len(before) + 1
               /\ last'.ret = new.id /\ new.id \notin Ids(before)
               /\ new.subject = last'.arg
               /\ Elems(new.blockedBy) = linked
               /\ NoDuplicates(new.blockedBy)
               /\ new.status = (IF linked # {} THEN "blocked" ELSE "pending")
               /\ new.blocks = (IF new.id \in linked THEN <<new.id>> ELSE <<>>)
               /\ \A i \in 1..Len(before) :
                     after[i] = [before[i] EXCEPT
                                   !.blocks = IF before[i].id \in linked
                                              THEN Append(@, new.id) ELSE @]
      ]_vars

\* Task 2 was created with the list <<"3", "1">>: task 3 does not exist and
\* was ignored, task 1 exists and was linked
C27_Witness ==
    /\ last.op = "task_create" /\ last.err = "" /\ last.ret = "2"
    /\ last.blockedBy = <<"3", "1">>
    /\ Len(Tasks("p")) = 2
    /\ Tasks("p")[2].status = "blocked" /\ Tasks("p")[2].blockedBy = <<"1">>
    /\ Tasks("p")[1].blocks = <<"2">>

====
